---- MODULE Spec2Model ----
(***************************************************************************)
(* TikTokWsClient (src/lib/ws/lib/ws-client.ts): the connection lifecycle  *)
(* and push-frame protocol of the WebSocket client.  Every handler of the  *)
(* class is one action; handlers run to completion on the event loop, the  *)
(* only suspension point being the await of the decode inside onMessage.   *)
(***************************************************************************)
EXTENDS Integers, Sequences, FiniteSets, TLC

\* ------------------------------------------------------------------ bounds
MaxConnect  == 2   \* connect() requests made on the client, the constructor's included
MaxInflight == 2   \* onMessage invocations suspended at the decode at one time
MaxClose    == 2   \* close() calls

\* --------------------------------------------------------------- constants
NoConn   == 0      \* this.connection = null
NoTimer  == 0      \* this.pingInterval = null
NormalClosure == 1000

ConnectRoomId == "123"          \* the room_id the client is constructed with
RoomIds == {"123", "456"}      \* the rooms switchRooms is called with

\* strings as sequences of code points, so that TextEncoder has work to do
StrAbc    == <<97, 98, 99>>
StrAccent == <<233>>

VARIABLES
    webSocketParams,   \* readonly constructor parameter; room_id is all that is used
    connection,        \* this.connection: NoConn or the id of a transport connection
    pingInterval,      \* this.pingInterval: NoTimer or the id of an interval timer
    liveTimers,        \* interval timers started by setInterval and not yet cleared
    opened,            \* transport connections whose message/close handlers are registered
    pendingConnects,   \* connect() requests the transport has not answered yet
    connectCalls,      \* connect() requests made so far (ids of connections and timers)
    inflight,          \* messages whose onMessage is suspended at the await, in arrival order
    promises,          \* the promises close() returned, in call order
    onceClose,         \* promises whose once('close') listener is still registered
    last,              \* the handler that ran last, its arguments and the fields it found
    out                \* what that handler handed to the transport and emitted, in order

vars == << webSocketParams, connection, pingInterval, liveTimers, opened,
           pendingConnects, connectCalls, inflight, promises, onceClose,
           last, out >>

\* -------------------------------------------------------- handler effects
Sent(c, frame)      == [op |-> "send", conn |-> c, frame |-> frame]
CloseReq(c, code)   == [op |-> "close", conn |-> c, code |-> code]
Emitted(ev, cn, pi) ==
    [op |-> "emit", event |-> ev, connection |-> cn, pingInterval |-> pi]

\* the handler op, called with args, entered with this.connection = cn and
\* this.pingInterval = pi, returning ret
Ran(op, args, cn, pi, ret) ==
    [op |-> op, args |-> args, connection |-> cn, pingInterval |-> pi, ret |-> ret]

\* ------------------------------------------------------------------ codec
\* TextEncoder.encode: UTF-8 of a string of code points below 0x800
RECURSIVE TextEncoderEncode(_)
TextEncoderEncode(s) ==
    IF s = <<>> THEN <<>>
    ELSE LET cp == Head(s)
             b  == IF cp < 128 THEN <<cp>>
                   ELSE <<192 + (cp \div 64), 128 + (cp % 64)>>
         IN  b \o TextEncoderEncode(Tail(s))

\* createBaseWebcastPushFrame: the envelope; fields not passed stay undefined
createBaseWebcastPushFrame(logId, payloadEncoding, payloadType, payload, service, method, headers) ==
    [ logId |-> logId, payloadEncoding |-> payloadEncoding, payloadType |-> payloadType,
      payload |-> payload, service |-> service, method |-> method,
      headers |-> headers ]

\* deserializeWebSocketMessage: throws on malformed data, else the decoded frame
DecodeThrows(binaryData) == binaryData.malformed
deserializeWebSocketMessage(binaryData) == binaryData.frame

\* a frame that came without logId decodes to the empty string
NoLogId == ""
Container(logId, payloadType, result) ==
    [logId |-> logId, payloadType |-> payloadType, protoMessageFetchResult |-> result]
FetchResult(needsAck, internalExt) ==
    << [needsAck |-> needsAck, internalExt |-> internalExt] >>
NoResult == << >>

Binary(malformed, frame) ==
    [type |-> "binary", binaryData |-> [malformed |-> malformed, frame |-> frame]]
Utf8Message == [type |-> "utf8", utf8Data |-> "text"]

\* the inbound messages the transport may deliver
InboundMessages ==
    { Utf8Message,
      Binary(TRUE,  Container("L1", "msg", FetchResult(TRUE, StrAbc))),
      Binary(FALSE, Container("L2", "im_enter_room_resp", FetchResult(TRUE, StrAccent))),
      Binary(FALSE, Container(NoLogId, "im_enter_room_resp", FetchResult(TRUE, StrAbc))),
      Binary(FALSE, Container("L1", "msg", FetchResult(FALSE, StrAbc))),
      Binary(FALSE, Container("L1", "im_enter_room_resp", NoResult)) }

\* !logId
Falsy(s) == s = ""

\* ------------------------------------------------------------ the client
\* sendBytes: the frame goes out through this.connection, if there is one
sendBytesReturn(c) == c # NoConn

\* variant: the handle is used without looking at it
sendBytes_Unguarded(c, tr, frame) == Append(tr, Sent(c, frame))

sendBytes(c, tr, frame) ==
    IF c # NoConn THEN Append(tr, Sent(c, frame)) ELSE tr

\* variant: the heartbeat is wrapped like the other frames, without headers
HeartbeatFrame_NoHeaders(roomId) ==
    createBaseWebcastPushFrame("undefined", "pb", "hb", [roomId |-> roomId],
                               "undefined", "undefined", "undefined")

HeartbeatFrame(roomId) ==
    createBaseWebcastPushFrame("undefined", "pb", "hb", [roomId |-> roomId],
                               "undefined", "undefined", "{}")

sendHeartbeat(c, tr, params) ==
    sendBytes(c, tr, HeartbeatFrame(params.room_id))

Init ==
    /\ webSocketParams = [room_id |-> ConnectRoomId]
    /\ connection = NoConn
    /\ pingInterval = NoTimer
    /\ liveTimers = {}
    /\ opened = {}
    /\ pendingConnects = 1
    /\ connectCalls = 1
    /\ inflight = << >>
    /\ promises = << >>
    /\ onceClose = {}
    /\ last = Ran("constructor", << >>, NoConn, NoTimer, FALSE)
    /\ out = << >>

\* the application calls the inherited connect() again
connect ==
    /\ connectCalls < MaxConnect
    /\ connectCalls' = connectCalls + 1
    /\ pendingConnects' = pendingConnects + 1
    /\ last' = Ran("connect", << >>, connection, pingInterval, FALSE)
    /\ out' = << >>
    /\ UNCHANGED << webSocketParams, connection, pingInterval, liveTimers, opened,
                    inflight, promises, onceClose >>

\* the transport answers a connect request: 'connect' is emitted, onConnect runs
onConnect ==
    /\ pendingConnects > 0
    /\ LET wsConnection == connectCalls - pendingConnects + 1 IN
       /\ out' = sendHeartbeat(connection, << >>, webSocketParams)
       /\ connection' = wsConnection
       /\ pingInterval' = wsConnection
       /\ liveTimers' = liveTimers \cup {wsConnection}
       /\ opened' = opened \cup {wsConnection}
       /\ last' = Ran("onConnect", <<wsConnection>>, connection, pingInterval, FALSE)
    /\ pendingConnects' = pendingConnects - 1
    /\ UNCHANGED << webSocketParams, connectCalls, inflight, promises, onceClose >>

\* the transport gives up on a connect request: 'connectFailed', which the
\* class does not subscribe to
connectFailed ==
    /\ pendingConnects > 0
    /\ pendingConnects' = pendingConnects - 1
    /\ last' = Ran("connectFailed", << >>, connection, pingInterval, FALSE)
    /\ out' = << >>
    /\ UNCHANGED << webSocketParams, connection, pingInterval, liveTimers, opened,
                    connectCalls, inflight, promises, onceClose >>

\* the promise close() creates; requested: the executor took the branch that
\* asks the transport to close
NewPromise(requested) ==
    [resolved |-> FALSE, resolveCalls |-> 0, requested |-> requested]

\* variant: the once('close') listener does not resolve
Resolve_Never(p) == p

\* resolve() of a promise: the first call settles it, later calls do nothing
Resolve(p) == [p EXCEPT !.resolved = TRUE, !.resolveCalls = p.resolveCalls + 1]

\* variant: the close notification reaches only the first once('close') listener
onDisconnect_FirstListener(c) ==
    /\ c \in opened
    /\ opened' = opened \ {c}
    /\ liveTimers' = liveTimers \ {pingInterval}
    /\ pingInterval' = NoTimer
    /\ connection' = NoConn
    /\ out' = << Emitted("close", NoConn, NoTimer) >>
    /\ promises' = [i \in DOMAIN promises |->
                       IF i \in onceClose /\ \A j \in onceClose : i <= j
                       THEN Resolve(promises[i]) ELSE promises[i]]
    /\ onceClose' = {j \in onceClose : \E i \in onceClose : i < j}
    /\ last' = Ran("onDisconnect", <<c>>, connection, pingInterval, FALSE)
    /\ UNCHANGED << webSocketParams, pendingConnects, connectCalls, inflight >>

\* variant: the interval is cleared but its handle is kept
onDisconnect_KeepTimerHandle(c) ==
    /\ c \in opened
    /\ opened' = opened \ {c}
    /\ liveTimers' = liveTimers \ {pingInterval}
    /\ pingInterval' = pingInterval
    /\ connection' = NoConn
    /\ out' = << Emitted("close", NoConn, pingInterval) >>
    /\ promises' = [i \in DOMAIN promises |->
                       IF i \in onceClose THEN Resolve(promises[i]) ELSE promises[i]]
    /\ onceClose' = {}
    /\ last' = Ran("onDisconnect", <<c>>, connection, pingInterval, FALSE)
    /\ UNCHANGED << webSocketParams, pendingConnects, connectCalls, inflight >>

\* variant: the close of the transport is swallowed
onDisconnect_Silent(c) ==
    /\ c \in opened
    /\ opened' = opened \ {c}
    /\ liveTimers' = liveTimers \ {pingInterval}
    /\ pingInterval' = NoTimer
    /\ connection' = NoConn
    /\ out' = << >>
    /\ promises' = promises
    /\ onceClose' = onceClose
    /\ last' = Ran("onDisconnect", <<c>>, connection, pingInterval, FALSE)
    /\ UNCHANGED << webSocketParams, pendingConnects, connectCalls, inflight >>

\* the 'close' event of transport connection c: onDisconnect runs
onDisconnect(c) ==
    /\ c \in opened
    /\ opened' = opened \ {c}
    /\ liveTimers' = liveTimers \ {pingInterval}
    /\ pingInterval' = NoTimer
    /\ connection' = NoConn
    /\ out' = << Emitted("close", NoConn, NoTimer) >>
    /\ promises' = [i \in DOMAIN promises |->
                       IF i \in onceClose THEN Resolve(promises[i]) ELSE promises[i]]
    /\ onceClose' = {}
    /\ last' = Ran("onDisconnect", <<c>>, connection, pingInterval, FALSE)
    /\ UNCHANGED << webSocketParams, pendingConnects, connectCalls, inflight >>

\* the interval callback of a timer that was not cleared
HeartbeatTick(t) ==
    /\ t \in liveTimers
    /\ out' = sendHeartbeat(connection, << >>, webSocketParams)
    /\ last' = Ran("HeartbeatTick", <<t>>, connection, pingInterval, FALSE)
    /\ UNCHANGED << webSocketParams, connection, pingInterval, liveTimers, opened,
                    pendingConnects, connectCalls, inflight, promises, onceClose >>

\* variant: a non-binary message is reported and then decoded all the same
onMessage_NoReturn(message) ==
    /\ opened # {}
    /\ Len(inflight) < MaxInflight
    /\ LET t1 == << Emitted("webSocketData", connection, pingInterval) >>
       IN  /\ out' = IF message.type # "binary"
                     THEN Append(t1, Emitted("unknownResponse", connection, pingInterval))
                     ELSE t1
           /\ inflight' = Append(inflight, message)
    /\ last' = Ran("onMessage", <<message>>, connection, pingInterval, FALSE)
    /\ UNCHANGED << webSocketParams, connection, pingInterval, liveTimers, opened,
                    pendingConnects, connectCalls, promises, onceClose >>

\* onMessage up to the await: a message arrives on one of the open transport
\* connections (the handler is the same bound method for all of them)
onMessage(message) ==
    /\ opened # {}
    /\ Len(inflight) < MaxInflight
    /\ LET t1 == << Emitted("webSocketData", connection, pingInterval) >>
       IN  IF message.type # "binary"
           THEN /\ out' = Append(t1, Emitted("unknownResponse", connection, pingInterval))
                /\ inflight' = inflight
           ELSE /\ out' = t1
                /\ inflight' = Append(inflight, message)
    /\ last' = Ran("onMessage", <<message>>, connection, pingInterval, FALSE)
    /\ UNCHANGED << webSocketParams, connection, pingInterval, liveTimers, opened,
                    pendingConnects, connectCalls, promises, onceClose >>

\* variant: internalExt is handed over without being encoded
AckFrame_Unencoded(logId, internalExt) ==
    createBaseWebcastPushFrame(logId, "pb", "ack", [bytes |-> internalExt],
                               "undefined", "undefined", "undefined")

AckFrame(logId, internalExt) ==
    createBaseWebcastPushFrame(logId, "pb", "ack", [bytes |-> TextEncoderEncode(internalExt)],
                               "undefined", "undefined", "undefined")

\* variant: no early return for a missing logId
sendAck_AnyLogId(c, tr, decodedContainer) ==
    sendBytes(c, tr, AckFrame(decodedContainer.logId,
                              decodedContainer.protoMessageFetchResult[1].internalExt))

sendAck(c, tr, decodedContainer) ==
    IF Falsy(decodedContainer.logId)
    THEN tr
    ELSE sendBytes(c, tr, AckFrame(decodedContainer.logId,
                                   decodedContainer.protoMessageFetchResult[1].internalExt))

\* variant: the result is published before it is acknowledged
Dispatch_PublishFirst(c, pi, tr, decodedContainer) ==
    LET res == decodedContainer.protoMessageFetchResult
        t0 == IF res # << >>
              THEN Append(tr, Emitted("protoMessageFetchResult", c, pi))
              ELSE tr
        t1 == IF res # << >> /\ res[1].needsAck
              THEN sendAck(c, t0, decodedContainer)
              ELSE t0
    IN  IF decodedContainer.payloadType = "im_enter_room_resp"
        THEN Append(t1, Emitted("imEnteredRoom", c, pi))
        ELSE t1

\* the body of the try block once the decode has succeeded
Dispatch(c, pi, tr, decodedContainer) ==
    LET res == decodedContainer.protoMessageFetchResult
        t1 == IF res # << >>
              THEN Append(IF res[1].needsAck THEN sendAck(c, tr, decodedContainer) ELSE tr,
                          Emitted("protoMessageFetchResult", c, pi))
              ELSE tr
    IN  IF decodedContainer.payloadType = "im_enter_room_resp"
        THEN Append(t1, Emitted("imEnteredRoom", c, pi))
        ELSE t1

RemoveAt(s, i) == SubSeq(s, 1, i - 1) \o SubSeq(s, i + 1, Len(s))

\* the decode of the i-th suspended message may be the next to complete: each
\* onMessage awaits its own decode, and a decode takes as long as it takes
DecodeCompletes(i) == i \in DOMAIN inflight

\* variant: a decode error tears the session down
onMessageDecoded_Fatal(i) ==
    /\ DecodeCompletes(i)
    /\ LET message == inflight[i] IN
       /\ inflight' = RemoveAt(inflight, i)
       /\ IF DecodeThrows(message.binaryData)
          THEN /\ out' = << Emitted("messageDecodingFailed", connection, pingInterval) >>
               /\ connection' = NoConn
          ELSE /\ out' = Dispatch(connection, pingInterval, << >>,
                                  deserializeWebSocketMessage(message.binaryData))
               /\ connection' = connection
       /\ last' = Ran("onMessageDecoded", <<message, i>>, connection, pingInterval, FALSE)
    /\ UNCHANGED << webSocketParams, pingInterval, liveTimers, opened,
                    pendingConnects, connectCalls, promises, onceClose >>

\* onMessage after the await: the decode of the i-th suspended invocation completes
onMessageDecoded(i) ==
    /\ DecodeCompletes(i)
    /\ LET message == inflight[i] IN
       /\ inflight' = RemoveAt(inflight, i)
       /\ IF DecodeThrows(message.binaryData)
          THEN /\ out' = << Emitted("messageDecodingFailed", connection, pingInterval) >>
          ELSE /\ out' = Dispatch(connection, pingInterval, << >>,
                                  deserializeWebSocketMessage(message.binaryData))
       /\ last' = Ran("onMessageDecoded", <<message, i>>, connection, pingInterval, FALSE)
    /\ UNCHANGED << webSocketParams, connection, pingInterval, liveTimers, opened,
                    pendingConnects, connectCalls, promises, onceClose >>

\* variant: the room of the connect parameters instead of the argument
EnterRoomFrame_ConnectRoom(roomId) ==
    createBaseWebcastPushFrame("undefined", "pb", "im_enter_room",
        [ roomId |-> webSocketParams.room_id, roomTag |-> "", liveRegion |-> "",
          liveId |-> "12", identity |-> "audience", cursor |-> "", accountType |-> "0",
          enterUniqueId |-> "", filterWelcomeMsg |-> "0",
          isAnchorContinueKeepMsg |-> FALSE ],
        "undefined", "undefined", "undefined")

EnterRoomFrame(roomId) ==
    createBaseWebcastPushFrame("undefined", "pb", "im_enter_room",
        [ roomId |-> roomId, roomTag |-> "", liveRegion |-> "", liveId |-> "12",
          identity |-> "audience", cursor |-> "", accountType |-> "0",
          enterUniqueId |-> "", filterWelcomeMsg |-> "0",
          isAnchorContinueKeepMsg |-> FALSE ],
        "undefined", "undefined", "undefined")

\* variant: the client remembers the room it has asked to enter
switchRooms_Remember(roomId) ==
    /\ out' = sendBytes(connection, << >>, EnterRoomFrame(roomId))
    /\ webSocketParams' = [webSocketParams EXCEPT !.room_id = roomId]
    /\ last' = Ran("switchRooms", <<roomId>>, connection, pingInterval, FALSE)
    /\ UNCHANGED << connection, pingInterval, liveTimers, opened,
                    pendingConnects, connectCalls, inflight, promises, onceClose >>

switchRooms(roomId) ==
    /\ out' = sendBytes(connection, << >>, EnterRoomFrame(roomId))
    /\ last' = Ran("switchRooms", <<roomId>>, connection, pingInterval, FALSE)
    /\ UNCHANGED << webSocketParams, connection, pingInterval, liveTimers, opened,
                    pendingConnects, connectCalls, inflight, promises, onceClose >>

\* a frame the embedding application has built itself
AppFrame ==
    createBaseWebcastPushFrame("undefined", "pb", "app", [bytes |-> <<1>>],
                               "undefined", "undefined", "undefined")

\* the application calls the public sendBytes()
sendBytesCall(data) ==
    /\ out' = sendBytes(connection, << >>, data)
    /\ last' = Ran("sendBytes", <<data>>, connection, pingInterval,
                   sendBytesReturn(connection))
    /\ UNCHANGED << webSocketParams, connection, pingInterval, liveTimers, opened,
                    pendingConnects, connectCalls, inflight, promises, onceClose >>

\* variant: resolves without waiting for the close event
close_ResolveEarly ==
    /\ Len(promises) < MaxClose
    /\ onceClose' = onceClose \cup {Len(promises) + 1}
    /\ IF connection # NoConn
       THEN /\ out' = << CloseReq(connection, NormalClosure) >>
            /\ promises' = Append(promises, Resolve(NewPromise(TRUE)))
       ELSE /\ out' = << >>
            /\ promises' = Append(promises, Resolve(NewPromise(FALSE)))
    /\ last' = Ran("close", << >>, connection, pingInterval, FALSE)
    /\ UNCHANGED << webSocketParams, connection, pingInterval, liveTimers, opened,
                    pendingConnects, connectCalls, inflight >>

\* close(): the promise, its once('close') listener, then the close request or
\* the immediate resolve
close ==
    /\ Len(promises) < MaxClose
    /\ onceClose' = onceClose \cup {Len(promises) + 1}
    /\ IF connection # NoConn
       THEN /\ out' = << CloseReq(connection, NormalClosure) >>
            /\ promises' = Append(promises, NewPromise(TRUE))
       ELSE /\ out' = << >>
            /\ promises' = Append(promises, Resolve(NewPromise(FALSE)))
    /\ last' = Ran("close", << >>, connection, pingInterval, FALSE)
    /\ UNCHANGED << webSocketParams, connection, pingInterval, liveTimers, opened,
                    pendingConnects, connectCalls, inflight >>

Next ==
    \/ connect
    \/ onConnect
    \/ connectFailed
    \/ \E c \in 1..MaxConnect : onDisconnect(c)
    \/ \E t \in 1..MaxConnect : HeartbeatTick(t)
    \/ \E message \in InboundMessages : onMessage(message)
    \/ \E i \in 1..MaxInflight : onMessageDecoded(i)
    \/ \E roomId \in RoomIds : switchRooms(roomId)
    \/ sendBytesCall(AppFrame)
    \/ close

Spec == Init /\ [][Next]_vars

\* ------------------------------------------------------- reading a handler's effects
FramesOf(o)     == SelectSeq(o, LAMBDA e : e.op = "send")
EventsOf(o, ev) == SelectSeq(o, LAMBDA e : e.op = "emit" /\ e.event = ev)

\* UTF-8 bytes back to code points (one- and two-byte sequences)
RECURSIVE Utf8Decode(_)
Utf8Decode(b) ==
    IF b = <<>> THEN <<>>
    ELSE IF Head(b) < 128 THEN <<Head(b)>> \o Utf8Decode(Tail(b))
    ELSE IF Head(b) >= 192 /\ Head(b) < 224 /\ Len(b) >= 2
         THEN <<(Head(b) - 192) * 64 + (b[2] - 128)>> \o Utf8Decode(Tail(Tail(b)))
    ELSE <<-1>>

\* the handler that ran last completed the decode of a well-formed binary message
DecodedOk == last.op = "onMessageDecoded" /\ ~last.args[1].binaryData.malformed
LastFrame == last.args[1].binaryData.frame
\* ... whose result asks for an acknowledgement
NeedsAck  == /\ DecodedOk
             /\ LastFrame.protoMessageFetchResult # << >>
             /\ LastFrame.protoMessageFetchResult[1].needsAck

\* ---------------------------------------------------------------------- C1
\* C1: handling the transport's connect event hands exactly one heartbeat
\* frame, carrying the room id of the connect parameters, to the transport.
C1_HeartbeatAtConnect ==
    last.op = "onConnect" =>
        /\ Len(FramesOf(out)) = 1
        /\ FramesOf(out)[1].frame.payloadType = "hb"
        /\ FramesOf(out)[1].frame.payload.roomId = webSocketParams.room_id

\* ---------------------------------------------------------------------- C2
IsAckFor(e, frame) ==
    /\ e.frame.payloadType = "ack"
    /\ e.frame.logId = frame.logId
    /\ Utf8Decode(e.frame.payload.bytes) = frame.protoMessageFetchResult[1].internalExt

\* C2 as stated: every decoded result with needsAck and a non-empty logId
\* gets exactly one ack frame with its logId and the bytes of its internalExt,
\* whatever the connection did in the meantime.
C2_AckAlways ==
    (NeedsAck /\ LastFrame.logId # "") =>
        /\ Len(FramesOf(out)) = 1
        /\ IsAckFor(FramesOf(out)[1], LastFrame)

\* C2 amended: exactly one such ack frame when a connection handle is active
\* at the moment the decode completes, and no frame at all when none is.
C2_AckWhileConnected ==
    (NeedsAck /\ LastFrame.logId # "") =>
        IF connection # NoConn
        THEN /\ Len(FramesOf(out)) = 1
             /\ FramesOf(out)[1].conn = connection
             /\ IsAckFor(FramesOf(out)[1], LastFrame)
        ELSE FramesOf(out) = << >>

\* an ack for a result with a two-byte character went out on the live connection
C2_Witness ==
    /\ NeedsAck
    /\ LastFrame.logId = "L2"
    /\ connection # NoConn
    /\ Len(FramesOf(out)) = 1
    /\ FramesOf(out)[1].frame.payload.bytes = <<195, 169>>

\* ---------------------------------------------------------------------- C3
\* C3: once the close event has been handled (the handle is cleared and no
\* connect event has come since) no interval callback fires and no heartbeat
\* frame is sent.
C3_NoTickAfterClose ==
    /\ last.op = "HeartbeatTick" => last.pingInterval # NoTimer
    /\ connection = NoConn =>
          \A k \in DOMAIN out : ~(out[k].op = "send" /\ out[k].frame.payloadType = "hb")

\* ---------------------------------------------------------------------- C4
\* C4: close() with an active connection hands the transport a close request
\* with the normal-closure code and returns a completion that is still
\* pending; such a completion resolves only in the step that handles a
\* transport close event, and after that step none of them is pending.
C4_CloseWhileConnected ==
    /\ [](last.op = "close" /\ last.connection # NoConn =>
             /\ out = << CloseReq(last.connection, 1000) >>
             /\ promises[Len(promises)].requested
             /\ ~promises[Len(promises)].resolved)
    /\ [][\A i \in DOMAIN promises :
             (promises[i].requested /\ ~promises[i].resolved /\ promises'[i].resolved)
                 => (last'.op = "onDisconnect" /\ EventsOf(out', "close") # << >>)]_vars
    /\ [](last.op = "onDisconnect" =>
             \A i \in DOMAIN promises : promises[i].resolved)

\* the close event has just resolved a completion of a close() made while connected
C4_Witness ==
    /\ last.op = "onDisconnect"
    /\ \E i \in DOMAIN promises :
          promises[i].requested /\ promises[i].resolved /\ promises[i].resolveCalls = 1

\* ---------------------------------------------------------------------- C5
\* C5: close() without an active connection returns a completion that is
\* already resolved, hands nothing to the transport and changes neither the
\* connection handle nor the heartbeat timer.
C5_CloseWhileDisconnected ==
    [][(last'.op = "close" /\ connection = NoConn /\ Len(promises') > Len(promises)) =>
          /\ out' = << >>
          /\ promises'[Len(promises')].resolved
          /\ promises'[Len(promises')].resolveCalls = 1
          /\ UNCHANGED << connection, pingInterval, liveTimers, opened >>]_vars

\* close() was called with no connection active and resolved on the spot
C5_Witness ==
    /\ last.op = "close"
    /\ last.connection = NoConn
    /\ out = << >>
    /\ promises[Len(promises)].resolved
    /\ ~promises[Len(promises)].requested

\* ---------------------------------------------------------------------- C6
\* what section 4.3 of the design says a decoded frame produces
RoutedAck(frame, cn) ==
    IF /\ frame.protoMessageFetchResult # << >>
       /\ frame.protoMessageFetchResult[1].needsAck
       /\ frame.logId # ""
       /\ cn # NoConn
    THEN << "ack" >> ELSE << >>
RoutedEvents(frame) ==
    (IF frame.protoMessageFetchResult # << >> THEN << "protoMessageFetchResult" >> ELSE << >>)
    \o (IF frame.payloadType = "im_enter_room_resp" THEN << "imEnteredRoom" >> ELSE << >>)
Routed(frame, cn) == RoutedAck(frame, cn) \o RoutedEvents(frame)

\* the names of what a handler did, in order
Shape(o) == [k \in DOMAIN o |->
                IF o[k].op = "send" THEN o[k].frame.payloadType
                ELSE IF o[k].op = "emit" THEN o[k].event ELSE "close"]

\* C6: a decode failure publishes exactly one decoding-failed event and
\* nothing else, and leaves every field of the client and every other
\* suspended message as it was (the session stays open); every message that
\* is handled, before or after a failure, is classified and routed as the
\* design prescribes for its content and the connection handle alone.
C6_DecodeFailureIsolated ==
    /\ [][(last'.op = "onMessageDecoded" /\ Len(inflight') < Len(inflight)
              /\ last'.args[1].binaryData.malformed) =>
             /\ Shape(out') = << "messageDecodingFailed" >>
             /\ UNCHANGED << webSocketParams, connection, pingInterval, liveTimers,
                             opened, pendingConnects, connectCalls, promises, onceClose >>
             /\ inflight' = RemoveAt(inflight, last'.args[2])]_vars
    /\ [](DecodedOk => Shape(out) = Routed(LastFrame, connection))
    /\ [](last.op = "onMessage" =>
             Shape(out) = IF last.args[1].type = "binary"
                          THEN << "webSocketData" >>
                          ELSE << "webSocketData", "unknownResponse" >>)

\* a decode has just failed while a later, well-formed message is still being
\* decoded on the connection, which is still there
C6_Witness ==
    /\ last.op = "onMessageDecoded"
    /\ last.args[1].binaryData.malformed
    /\ last.args[2] = 1
    /\ Shape(out) = << "messageDecodingFailed" >>
    /\ connection # NoConn
    /\ pingInterval # NoTimer
    /\ Len(inflight) = 1
    /\ ~inflight[1].binaryData.malformed

\* ---------------------------------------------------------------------- C7
\* C7: a non-binary message is never handed to the decoder and produces the
\* raw-data event and exactly one unknown-response event, nothing else.
C7_NonBinaryIsolated ==
    [][(last'.op = "onMessage" /\ last'.args[1].type # "binary"
           /\ << last', out' >> # << last, out >>) =>
          /\ inflight' = inflight
          /\ Len(EventsOf(out', "unknownResponse")) = 1
          /\ FramesOf(out') = << >>
          /\ \A k \in DOMAIN out' :
                out'[k].op = "emit" /\ out'[k].event \in {"webSocketData", "unknownResponse"}]_vars

\* a text message arrived while a binary one was still being decoded
C7_Witness ==
    /\ last.op = "onMessage"
    /\ last.args[1].type = "utf8"
    /\ Len(inflight) > 0
    /\ Len(EventsOf(out, "unknownResponse")) = 1

IsEnterRoom(e, r) ==
    /\ e.op = "send"
    /\ e.frame.payloadType = "im_enter_room"
    /\ e.frame.payload = [ roomId |-> r, roomTag |-> "", liveRegion |-> "",
                           liveId |-> "12", identity |-> "audience", cursor |-> "",
                           accountType |-> "0", enterUniqueId |-> "",
                           filterWelcomeMsg |-> "0", isAnchorContinueKeepMsg |-> FALSE ]

\* C9 as stated: in every lifecycle state switchRooms(r) hands the transport
\* exactly one im_enter_room frame with room r and the fixed fields.
C9_EnterRoomAlways ==
    last.op = "switchRooms" =>
        (Len(out) = 1 /\ IsEnterRoom(out[1], last.args[1]))

\* C9 amended: it does so when a connection handle is active; with no active
\* connection the frame is dropped and nothing reaches the transport.
C9_EnterRoomWhileConnected ==
    last.op = "switchRooms" =>
        IF connection # NoConn
        THEN Len(out) = 1 /\ out[1].conn = connection /\ IsEnterRoom(out[1], last.args[1])
        ELSE out = << >>

\* switchRooms to a room other than the one connected to, on a live connection
C9_Witness ==
    /\ last.op = "switchRooms"
    /\ last.args[1] # webSocketParams.room_id
    /\ connection # NoConn
    /\ Len(out) = 1

\* --------------------------------------------------------------------- C10
\* C10: sendBytes returns true and hands exactly its frame to the transport
\* when a connection handle is active; otherwise it returns false, hands
\* nothing over and changes no state.  No handler ever hands over a frame
\* except through the connection handle that was active when it ran.
C10_SendBytes ==
    /\ [][(last'.op = "sendBytes" /\ << last', out' >> # << last, out >>) =>
             /\ UNCHANGED << connection, pingInterval, liveTimers, opened,
                             pendingConnects, inflight, promises, onceClose >>
             /\ IF connection # NoConn
                THEN last'.ret = TRUE /\ out' = << Sent(connection, last'.args[1]) >>
                ELSE last'.ret = FALSE /\ out' = << >>]_vars
    /\ [](\A k \in DOMAIN out :
             out[k].op = "send" => (out[k].conn # NoConn /\ out[k].conn = last.connection))

\* sendBytes was refused while a connect request was still unanswered
C10_Witness ==
    /\ last.op = "sendBytes"
    /\ last.connection = NoConn
    /\ last.ret = FALSE
    /\ pendingConnects > 0
    /\ out = << >>
\* --------------------------------------------------------------------- C11
\* C11 as stated: a failed connect request and a close of the transport
\* connection both end in exactly one close notification, with the handle
\* cleared and no new connect request made.
C11_FailureClosesAlways ==
    [][(last'.op \in {"connectFailed", "onDisconnect"} /\ last' # last) =>
          /\ Len(EventsOf(out', "close")) = 1
          /\ connection' = NoConn
          /\ connectCalls' = connectCalls]_vars

\* C11 amended: the close of the transport connection ends in exactly one
\* close notification, with handle and timer handle cleared and no new
\* connect request; a failed connect request emits nothing from this class,
\* changes no field and is not retried either.
C11_CloseSurfacedConnectErrorNot ==
    /\ [][(last'.op = "onDisconnect" /\ opened' # opened) =>
             /\ Shape(out') = << "close" >>
             /\ connection' = NoConn
             /\ pingInterval' = NoTimer
             /\ connectCalls' = connectCalls
             /\ pendingConnects' = pendingConnects]_vars
    /\ [][(last'.op = "connectFailed" /\ pendingConnects' # pendingConnects) =>
             /\ out' = << >>
             /\ pendingConnects' = pendingConnects - 1
             /\ UNCHANGED << connection, pingInterval, liveTimers, opened,
                             connectCalls, promises, onceClose >>]_vars

\* the transport closed a connection nobody had asked to close
C11_Witness ==
    /\ last.op = "onDisconnect"
    /\ last.connection = last.args[1]
    /\ promises = << >>
    /\ connection = NoConn
    /\ Shape(out) = << "close" >>
\* --------------------------------------------------------------------- C12
\* C12: the ack and the events of a binary frame are emitted before those of
\* every frame that arrived after it: whenever the handling of a frame
\* resumes and emits, no frame that arrived earlier is still suspended.
C12_ArrivalOrder ==
    (last.op = "onMessageDecoded" /\ out # << >>) => last.args[2] = 1
\* --------------------------------------------------------------------- C13
\* C13: handling the transport's close event cancels the heartbeat timer of
\* the connection, clears the timer handle and the connection handle and
\* only then emits the close notification, so that whoever reacts to the
\* notification finds no connection handle, no timer handle and no interval
\* left running.
C13_ClosedBeforeNotified ==
    last.op = "onDisconnect" =>
        /\ out = << Emitted("close", NoConn, NoTimer) >>
        /\ connection = NoConn
        /\ pingInterval = NoTimer
        /\ liveTimers = {}
\* --------------------------------------------------------------------- C14
\* C14: for a decoded frame that carries a protoMessageFetchResult the
\* fetch-result event is published exactly once, whether the ack was sent,
\* skipped for a missing logId, not asked for, or dropped for want of a
\* connection; an ack that is sent goes out before the event is published.
C14_AckThenPublish ==
    (DecodedOk /\ LastFrame.protoMessageFetchResult # << >>) =>
        /\ Len(EventsOf(out, "protoMessageFetchResult")) = 1
        /\ \A j, k \in DOMAIN out :
              (out[j].op = "send" /\ out[k].op = "emit"
                   /\ out[k].event = "protoMessageFetchResult") => j < k
        /\ (Len(FramesOf(out)) = 1) <=>
              (/\ LastFrame.protoMessageFetchResult[1].needsAck
               /\ LastFrame.logId # ""
               /\ connection # NoConn)

\* an ack went out and the result was published after it
C14_Witness ==
    /\ DecodedOk
    /\ Len(out) >= 2
    /\ out[1].op = "send"
    /\ out[1].frame.payloadType = "ack"
    /\ out[2].op = "emit"
    /\ out[2].event = "protoMessageFetchResult"
\* --------------------------------------------------------------------- C15
\* C15: switchRooms writes no field of the client: the connection handle,
\* the timer handle, the running intervals and the connect parameters are
\* left as they were, and every heartbeat frame, whenever it is sent, carries
\* the room id the client was constructed with.
C15_SwitchRoomsKeepsState ==
    /\ [][(last'.op = "switchRooms" /\ << last', out' >> # << last, out >>) =>
             UNCHANGED << webSocketParams, connection, pingInterval, liveTimers,
                          opened, pendingConnects, connectCalls, inflight,
                          promises, onceClose >>]_vars
    /\ [](\A k \in DOMAIN out :
             (out[k].op = "send" /\ out[k].frame.payloadType = "hb") =>
                 out[k].frame.payload.roomId = "123")

\* another room has just been asked for on a live connection whose heartbeat
\* interval keeps running with the parameters of the connect
C15_Witness ==
    /\ last.op = "switchRooms"
    /\ last.args[1] = "456"
    /\ Len(out) = 1
    /\ pingInterval # NoTimer
    /\ pingInterval \in liveTimers
    /\ webSocketParams.room_id = "123"
\* --------------------------------------------------------------------- C16
\* C16: between handlers the timer handle is set exactly when the connection
\* handle is set, and a handle that is set refers to an interval that is
\* running; before the first connect event and after a close event both
\* handles are null.
C16_TimerHandleIffConnection ==
    /\ (pingInterval # NoTimer) <=> (connection # NoConn)
    /\ pingInterval # NoTimer => pingInterval \in liveTimers
    /\ last.op \in {"constructor", "onDisconnect"} => pingInterval = NoTimer
    /\ last.op = "onConnect" => pingInterval # NoTimer

\* Connected, after an earlier connection of the same client had been closed
C16_Witness ==
    /\ last.op = "onConnect"
    /\ last.connection = NoConn
    /\ connection = 2
    /\ pingInterval = 2
    /\ opened = {2}
    /\ liveTimers = {2}
\* --------------------------------------------------------------------- C17
IsHeartbeat(f, encoding) ==
    /\ f.payloadType = "hb"
    /\ f.payloadEncoding = encoding
    /\ f.headers = "{}"
    /\ f.service = "undefined"
    /\ f.method = "undefined"
    /\ f.payload = [roomId |-> "123"]

\* C17 as stated: a tick that fires with a connection active sends exactly
\* one heartbeat frame whose payloadEncoding is "protobuf", and acks and
\* room-enter frames carry that payloadEncoding too.
C17_FramesSayProtobuf ==
    /\ (last.op = "HeartbeatTick" /\ connection # NoConn) =>
          (Len(out) = 1 /\ out[1].op = "send" /\ IsHeartbeat(out[1].frame, "protobuf"))
    /\ \A k \in DOMAIN out :
          (out[k].op = "send" /\ out[k].frame.payloadType \in {"ack", "im_enter_room"})
              => out[k].frame.payloadEncoding = "protobuf"

\* C17 amended: the same, with the payloadEncoding the frames really carry,
\* the token "pb".
C17_FramesSayPb ==
    /\ (last.op = "HeartbeatTick" /\ connection # NoConn) =>
          (Len(out) = 1 /\ out[1].op = "send" /\ out[1].conn = connection
              /\ IsHeartbeat(out[1].frame, "pb"))
    /\ \A k \in DOMAIN out :
          (out[k].op = "send" /\ out[k].frame.payloadType \in {"ack", "im_enter_room"})
              => out[k].frame.payloadEncoding = "pb"

\* the interval of the current connection has just fired and sent its frame
C17_Witness ==
    /\ last.op = "HeartbeatTick"
    /\ last.args[1] = pingInterval
    /\ connection # NoConn
    /\ Len(out) = 1
    /\ out[1].frame.payloadType = "hb"
\* --------------------------------------------------------------------- C18
\* C18: once a completion returned by close() has resolved, and while no
\* connect besides the constructor's has been requested (so none after the
\* close() call), the session has no connection handle, no heartbeat is
\* scheduled and the handler that ran last sent no frame.
C18_ClosedStaysClosed ==
    (connectCalls = 1 /\ \E i \in DOMAIN promises : promises[i].resolved) =>
        /\ connection = NoConn
        /\ pingInterval = NoTimer
        /\ liveTimers = {}
        /\ FramesOf(out) = << >>
\* --------------------------------------------------------------------- C19
\* C19: every heartbeat timer that was started and not cancelled is the one
\* the timer handle refers to, so at most one timer is live at any time.
C19_OneLiveTimer ==
    /\ liveTimers \subseteq {pingInterval}
    /\ Cardinality(liveTimers) <= 1
\* --------------------------------------------------------------------- C20
\* C20: of the completions close() returned, the ones that asked the
\* transport to close are unresolved until a close event, all of them are
\* resolved by the close event, each is resolved exactly once, and a
\* completion that is resolved (immediately or by a close event) stays as it
\* is through every later step.
C20_AllResolveAtCloseEvent ==
    /\ [](\A i \in DOMAIN promises :
            /\ promises[i].requested =>
                  promises[i].resolveCalls = IF promises[i].resolved THEN 1 ELSE 0
            /\ ~promises[i].requested => promises[i].resolved)
    /\ []((last.op = "close" /\ last.connection # NoConn) =>
            ~promises[Len(promises)].resolved)
    /\ [](last.op = "onDisconnect" => \A i \in DOMAIN promises : promises[i].resolved)
    /\ [][\A i \in DOMAIN promises :
            /\ i \in DOMAIN promises'
            /\ promises'[i].requested = promises[i].requested
            /\ promises[i].resolved => promises'[i].resolved
            /\ (~promises[i].resolved /\ promises'[i].resolved) =>
                  last'.op = "onDisconnect"]_vars

\* two close() calls were waiting and the close event has resolved both
C20_Witness ==
    /\ last.op = "onDisconnect"
    /\ Len(promises) = 2
    /\ \A i \in DOMAIN promises :
          /\ promises[i].requested
          /\ promises[i].resolved
          /\ promises[i].resolveCalls = 1
====
